---- MODULE Spec2Model ----
(***************************************************************************)
(* Model of the seller-apis repository: src/seller.py (Ozon) and           *)
(* src/market.py (Yandex Market).                                          *)
(*                                                                         *)
(* Offer identifiers and feed codes are opaque strings in the program,     *)
(* only ever compared for equality; they are modelled as natural numbers.  *)
(* Quantity and price descriptors are strings the program inspects         *)
(* character by character (int(), split, re.sub); they are modelled as     *)
(* sequences of one-character strings.                                     *)
(***************************************************************************)
EXTENDS Integers, Sequences, FiniteSets, TLC

VARIABLES
    entry,            \* which program runs: "seller" (seller.py) or "market" (market.py)
    pc,               \* position of the running code
    account,          \* the account being processed: "OZON", "FBS" or "DBS"
    catalogue,        \* environment: account -> the offers the marketplace lists
    feed,             \* environment: the rows the feed site serves
    watch_remnants,   \* the feed: sequence of rows [code, quantity, price]
    offer_ids,        \* the list get_offer_ids returned (mutated by create_stocks)
    product_list,     \* get_offer_ids: the accumulated products
    page,             \* get_offer_ids: last_id (Ozon) / page token (Yandex)
    stocks,           \* the list create_stocks returned
    prices,           \* the list create_prices returned
    todo,             \* the chunks of the running upload loop still to send
    calls,            \* history: every network request issued, in order
    error,            \* the exception that was raised ("none" when none was)
    printed,          \* what the handler of main printed
    escaped,          \* TRUE when an exception left main
    unawaited,        \* coroutine objects created and never run
    lst,              \* divide: the list argument
    n,                \* divide: the chunk size argument
    chunks            \* divide: the chunks produced, list(divide(lst, n))

vars == << entry, pc, account, catalogue, feed, watch_remnants, offer_ids, product_list,
           page, stocks, prices, todo, calls, error, printed, escaped, unawaited,
           lst, n, chunks >>

----------------------------------------------------------------------------
(* Bounds of the model.                                                    *)

\* Longest feed of the reconciliation specification.
MaxFeed == 2
\* Identifiers 1..MaxIds can be listed by the marketplace; code 0 is a feed
\* code no marketplace lists.
MaxIds == 3
\* Longest quantity descriptor enumerated character by character.
MaxDesc == 3
\* Longest list and largest chunk size given to divide on its own.
MaxLst == 5
MaxN == 3
\* Most pages one get_offer_ids call is served, and the largest total the
\* Ozon marketplace reports, in the pagination specification.
MaxPages == 3
MaxTotal == 2
\* Longest feed the two programs are run on.
MaxMainFeed == 2

----------------------------------------------------------------------------
(* Generic list helpers (Python list semantics).                           *)

Min(a, b) == IF a < b THEN a ELSE b

\* x in l
In(x, l) == \E i \in 1..Len(l) : l[i] = x

\* number of occurrences of x in l
Count(x, l) == Cardinality({i \in 1..Len(l) : l[i] = x})

NoDuplicates(l) == \A i, j \in 1..Len(l) : l[i] = l[j] => i = j

\* a remove that leaves the list as it was
ListRemoveNothing(l, x) == l

\* list.remove(x): drops the first occurrence of x (the callers test x in l first)
ListRemove(l, x) ==
    LET i == CHOOSE k \in 1..Len(l) : l[k] = x /\ \A j \in 1..(k - 1) : l[j] # x
    IN  SubSeq(l, 1, i - 1) \o SubSeq(l, i + 1, Len(l))

\* all sequences over S of length at most k
SeqsUpTo(S, k) == UNION {[1..m -> S] : m \in 0..k}

----------------------------------------------------------------------------
(* Descriptor parsing.                                                     *)

Digits == {"0", "1", "2", "3", "4", "5", "6", "7", "8", "9"}

DigitVal(c) ==
    CASE c = "0" -> 0 [] c = "1" -> 1 [] c = "2" -> 2 [] c = "3" -> 3 [] c = "4" -> 4
      [] c = "5" -> 5 [] c = "6" -> 6 [] c = "7" -> 7 [] c = "8" -> 8 [] c = "9" -> 9

RECURSIVE DigitsValue(_)
\* value of a non-empty sequence of decimal digits
DigitsValue(s) ==
    IF Len(s) = 0 THEN 0
    ELSE 10 * DigitsValue(SubSeq(s, 1, Len(s) - 1)) + DigitVal(s[Len(s)])

AllDigits(s) == Len(s) > 0 /\ \A i \in 1..Len(s) : s[i] \in Digits

\* Python's int(str) on the characters the model uses: an optional sign
\* followed by one or more decimal digits gives [raised |-> FALSE, value |-> v];
\* anything else raises ValueError.
PyInt(s) ==
    IF AllDigits(s) THEN [raised |-> FALSE, value |-> DigitsValue(s)]
    ELSE IF Len(s) > 1 /\ s[1] \in {"-", "+"} /\ AllDigits(Tail(s))
         THEN [raised |-> FALSE,
               value |-> IF s[1] = "-" THEN 0 - DigitsValue(Tail(s))
                                       ELSE DigitsValue(Tail(s))]
         ELSE [raised |-> TRUE, value |-> 0]

\* the literal tokens create_stocks compares the descriptor with
Gt10 == << ">", "1", "0" >>
One == << "1" >>

\* a quantity rule that forgets the "1" -> 0 case
StockOfCountNoOne(count) ==
    IF count = Gt10 THEN [raised |-> FALSE, value |-> 100] ELSE PyInt(count)

\* create_stocks: the stock count of a matched feed row with quantity
\* descriptor count, or the ValueError int() raises
StockOfCount(count) ==
    IF count = Gt10 THEN [raised |-> FALSE, value |-> 100]
    ELSE IF count = One THEN [raised |-> FALSE, value |-> 0]
    ELSE PyInt(count)

\* price.split(".")[0]
BeforeFirstDot(price) ==
    IF \E i \in 1..Len(price) : price[i] = "."
    THEN LET d == CHOOSE i \in 1..Len(price) :
                      price[i] = "." /\ \A j \in 1..(i - 1) : price[j] # "."
         IN  SubSeq(price, 1, d - 1)
    ELSE price

IsDigit(c) == c \in Digits

\* re.sub("[^0-9]", "", price.split(".")[0])
price_conversion(price) == SelectSeq(BeforeFirstDot(price), IsDigit)

----------------------------------------------------------------------------
(* Reconciliation: create_stocks and create_prices of both programs.       *)
(* A call's outcome is a record: raised (an exception left the call),      *)
(* the list built so far, and offer_ids as the call left the caller's      *)
(* list.                                                                   *)

\* seller.py: one stock entry
SellerStock(offer_id, stock) == [offer_id |-> offer_id, stock |-> stock]

\* market.py: one stock entry; the timestamp is the clock reading of the call
UtcNow == "utcnow"
MarketStock(sku, warehouse_id, count) ==
    [sku |-> sku, warehouseId |-> warehouse_id,
     items |-> << [count |-> count, type |-> "FIT", updatedAt |-> UtcNow] >>]

\* seller.create_stocks, the loop over the feed (lines 174-184), from row i on
RECURSIVE SellerStocksLoop(_, _, _, _)
SellerStocksLoop(rows, i, acc, ids) ==
    IF i > Len(rows) THEN [raised |-> FALSE, stocks |-> acc, offer_ids |-> ids]
    ELSE IF ~In(rows[i].code, ids) THEN SellerStocksLoop(rows, i + 1, acc, ids)
    ELSE LET s == StockOfCount(rows[i].quantity)
         IN  IF s.raised THEN [raised |-> TRUE, stocks |-> acc, offer_ids |-> ids]
             ELSE SellerStocksLoop(rows, i + 1,
                      Append(acc, SellerStock(rows[i].code, s.value)),
                      ListRemove(ids, rows[i].code))

\* a create_stocks whose second loop consumes the identifiers it reports
seller_create_stocks_clearing(rows, ids) ==
    LET r == SellerStocksLoop(rows, 1, << >>, ids)
    IN  IF r.raised THEN r
        ELSE [raised |-> FALSE,
              stocks |-> r.stocks \o
                         [k \in 1..Len(r.offer_ids) |-> SellerStock(r.offer_ids[k], 0)],
              offer_ids |-> << >>]

\* seller.create_stocks(watch_remnants, offer_ids): the second loop (lines
\* 186-187) appends a zero entry per identifier left and removes nothing
seller_create_stocks(rows, ids) ==
    LET r == SellerStocksLoop(rows, 1, << >>, ids)
    IN  IF r.raised THEN r
        ELSE [raised |-> FALSE,
              stocks |-> r.stocks \o
                         [k \in 1..Len(r.offer_ids) |-> SellerStock(r.offer_ids[k], 0)],
              offer_ids |-> r.offer_ids]

\* market.create_stocks, the loop over the feed (lines 163-185), from row i on
RECURSIVE MarketStocksLoop(_, _, _, _, _)
MarketStocksLoop(rows, i, acc, ids, warehouse_id) ==
    IF i > Len(rows) THEN [raised |-> FALSE, stocks |-> acc, offer_ids |-> ids]
    ELSE IF ~In(rows[i].code, ids)
         THEN MarketStocksLoop(rows, i + 1, acc, ids, warehouse_id)
    ELSE LET s == StockOfCount(rows[i].quantity)
         IN  IF s.raised THEN [raised |-> TRUE, stocks |-> acc, offer_ids |-> ids]
             ELSE MarketStocksLoop(rows, i + 1,
                      Append(acc, MarketStock(rows[i].code, warehouse_id, s.value)),
                      ListRemove(ids, rows[i].code), warehouse_id)

\* market.create_stocks(watch_remnants, offer_ids, warehouse_id)
market_create_stocks(rows, ids, warehouse_id) ==
    LET r == MarketStocksLoop(rows, 1, << >>, ids, warehouse_id)
    IN  IF r.raised THEN r
        ELSE [raised |-> FALSE,
              stocks |-> r.stocks \o
                         [k \in 1..Len(r.offer_ids) |->
                              MarketStock(r.offer_ids[k], warehouse_id, 0)],
              offer_ids |-> r.offer_ids]

\* seller.py: one price entry; the price is the digit string
SellerPrice(offer_id, price) ==
    [auto_action_enabled |-> "UNKNOWN", currency_code |-> "RUB",
     offer_id |-> offer_id, old_price |-> "0", price |-> price]

\* seller.create_prices(watch_remnants, offer_ids), from row i on
RECURSIVE SellerPricesLoop(_, _, _, _)
SellerPricesLoop(rows, i, acc, ids) ==
    IF i > Len(rows) THEN [raised |-> FALSE, prices |-> acc]
    ELSE IF ~In(rows[i].code, ids) THEN SellerPricesLoop(rows, i + 1, acc, ids)
    ELSE SellerPricesLoop(rows, i + 1,
             Append(acc, SellerPrice(rows[i].code, price_conversion(rows[i].price))),
             ids)

seller_create_prices(rows, ids) == SellerPricesLoop(rows, 1, << >>, ids)

\* market.py: one price entry; the price is an integer
MarketPrice(id, value) == [id |-> id, price |-> [value |-> value, currencyId |-> "RUR"]]

\* market.create_prices(watch_remnants, offer_ids), from row i on;
\* int(price_conversion(...)) raises ValueError on a price without digits
RECURSIVE MarketPricesLoop(_, _, _, _)
MarketPricesLoop(rows, i, acc, ids) ==
    IF i > Len(rows) THEN [raised |-> FALSE, prices |-> acc]
    ELSE IF ~In(rows[i].code, ids) THEN MarketPricesLoop(rows, i + 1, acc, ids)
    ELSE LET v == PyInt(price_conversion(rows[i].price))
         IN  IF v.raised THEN [raised |-> TRUE, prices |-> acc]
             ELSE MarketPricesLoop(rows, i + 1,
                      Append(acc, MarketPrice(rows[i].code, v.value)), ids)

market_create_prices(rows, ids) == MarketPricesLoop(rows, 1, << >>, ids)

\* a divide that yields only the full chunks
divide_full_chunks_only(l, size) ==
    [k \in 1..(Len(l) \div size) |-> SubSeq(l, (k - 1) * size + 1, k * size)]

\* divide(lst, n) of seller.py, as the list of the chunks the generator
\* yields: lst[i : i + n] for i in range(0, len(lst), n), n > 0
divide(l, size) ==
    [k \in 1..((Len(l) + size - 1) \div size) |->
        SubSeq(l, (k - 1) * size + 1, Min(k * size, Len(l)))]

----------------------------------------------------------------------------
(* Accessors shared by the two programs' entry shapes.                     *)

StockId(e) == IF "sku" \in DOMAIN e THEN e.sku ELSE e.offer_id
StockCount(e) == IF "sku" \in DOMAIN e THEN e.items[1].count ELSE e.stock
PriceId(e) == IF "id" \in DOMAIN e THEN e.id ELSE e.offer_id

\* the identifiers of a list of entries, in order
StockIds(l) == [k \in 1..Len(l) |-> StockId(l[k])]
PriceIds(l) == [k \in 1..Len(l) |-> PriceId(l[k])]

\* the codes of the feed, in order
Codes(rows) == [k \in 1..Len(rows) |-> rows[k].code]

\* WAREHOUSE_FBS_ID / WAREHOUSE_DBS_ID of the environment
WarehouseOf(a) == IF a = "FBS" THEN "warehouse_fbs" ELSE "warehouse_dbs"

\* create_stocks of the program e
create_stocks(e, rows, ids, a) ==
    IF e = "seller" THEN seller_create_stocks(rows, ids)
    ELSE market_create_stocks(rows, ids, WarehouseOf(a))

\* create_prices of the program e
create_prices(e, rows, ids) ==
    IF e = "seller" THEN seller_create_prices(rows, ids)
    ELSE market_create_prices(rows, ids)

----------------------------------------------------------------------------
(* Inputs.                                                                 *)

\* price descriptors: "5'9.0" (59), "12" (12) and "x" (no digit)
PriceA == << "5", "'", "9", ".", "0" >>
PriceB == << "1", "2" >>
PriceX == << "x" >>

\* feed codes: 0 is listed by no marketplace
FeedCodes == {0, 1, 2}

\* the rows of the enumerated feeds
Rows ==
    {[code |-> c, quantity |-> qp[1], price |-> qp[2]] :
        c \in FeedCodes,
        qp \in {<< Gt10, PriceA >>, << << "7" >>, PriceB >>,
                << << "x" >>, PriceA >>, << One, PriceX >>}}

\* the characters of the enumerated quantity descriptors
DescAlphabet == {">", "0", "1", "7", "x", "-"}

\* one-row feeds carrying every descriptor over DescAlphabet up to MaxDesc
DescFeeds ==
    {<< [code |-> 1, quantity |-> d, price |-> PriceB] >> :
        d \in SeqsUpTo(DescAlphabet, MaxDesc)}

ReconFeeds == SeqsUpTo(Rows, MaxFeed) \cup DescFeeds

\* the marketplace lists each offer once: duplicate-free lists over 1..MaxIds
Catalogues == {l \in SeqsUpTo(1..MaxIds, MaxIds) : NoDuplicates(l)}

----------------------------------------------------------------------------
(* SpecRecon: create_stocks(F, list(S)) followed by create_prices(F, S),   *)
(* for every feed F and identifier collection S of the bounds.             *)

\* the variables the main programs use and the other specifications leave alone
Idle ==
    /\ product_list = << >> /\ page = "" /\ todo = << >> /\ calls = << >>
    /\ printed = << >> /\ escaped = FALSE /\ unawaited = << >>
    /\ lst = << >> /\ n = 1 /\ chunks = << >> /\ feed = << >>

InitRecon ==
    /\ entry \in {"seller", "market"}
    /\ account = (IF entry = "seller" THEN "OZON" ELSE "FBS")
    /\ \E S \in Catalogues :
          /\ catalogue = [a \in {account} |-> S]
          /\ offer_ids = S
    /\ watch_remnants \in ReconFeeds
    /\ pc = "recon"
    /\ stocks = << >> /\ prices = << >> /\ error = "none"
    /\ Idle

\* stocks = create_stocks(watch_remnants, offer_ids) on the working copy
ReconCreateStocks ==
    /\ pc = "recon"
    /\ LET r == create_stocks(entry, watch_remnants, offer_ids, account)
       IN  /\ offer_ids' = r.offer_ids
           /\ stocks' = (IF r.raised THEN stocks ELSE r.stocks)
           /\ error' = (IF r.raised THEN "ValueError" ELSE "none")
           /\ pc' = (IF r.raised THEN "recon_stocks_raised" ELSE "recon_stocks")
    /\ UNCHANGED << entry, account, catalogue, feed, watch_remnants, product_list, page,
                    prices, todo, calls, printed, escaped, unawaited, lst, n, chunks >>

\* prices = create_prices(watch_remnants, S) on the original collection
ReconCreatePrices ==
    /\ pc = "recon_stocks"
    /\ LET r == create_prices(entry, watch_remnants, catalogue[account])
       IN  /\ prices' = (IF r.raised THEN prices ELSE r.prices)
           /\ error' = (IF r.raised THEN "ValueError" ELSE "none")
           /\ pc' = (IF r.raised THEN "recon_prices_raised" ELSE "recon_done")
    /\ UNCHANGED << entry, account, catalogue, feed, watch_remnants, offer_ids, product_list,
                    page, stocks, todo, calls, printed, escaped, unawaited, lst, n,
                    chunks >>

NextRecon == ReconCreateStocks \/ ReconCreatePrices

SpecRecon == InitRecon /\ [][NextRecon]_vars

----------------------------------------------------------------------------
(* Properties of the reconciliation (checked under SpecRecon).             *)

\* the identifier collection S the calls were given
OriginalIds == catalogue[account]

\* create_stocks returned its list
StocksReturned == pc \in {"recon_stocks", "recon_done", "recon_prices_raised"}

\* the feed has a row for id
HasRow(id) == In(id, Codes(watch_remnants))

C5_PricesOncePerMatched ==
    pc = "recon_done" =>
        \A k \in 1..Len(OriginalIds) :
            LET id == OriginalIds[k]
            IN  IF HasRow(id)
                THEN Count(id, PriceIds(prices)) = 1
                ELSE /\ Count(id, PriceIds(prices)) = 0
                     /\ \E m \in 1..Len(stocks) :
                           StockId(stocks[m]) = id /\ StockCount(stocks[m]) = 0

\* the rows create_stocks matches: the first row of each code that is in S
MatchedRows ==
    {i \in 1..Len(watch_remnants) :
        /\ In(watch_remnants[i].code, OriginalIds)
        /\ \A j \in 1..(i - 1) : watch_remnants[j].code # watch_remnants[i].code}

\* a base-10 numeral: an optional sign and at least one digit
IsNumeral(d) ==
    \/ AllDigits(d)
    \/ Len(d) > 1 /\ d[1] \in {"-", "+"} /\ AllDigits(Tail(d))

RECURSIVE Pow10(_)
Pow10(k) == IF k = 0 THEN 1 ELSE 10 * Pow10(k - 1)

RECURSIVE PositionalSum(_, _)
\* the sum of digit * 10^position over the first k digits of d
PositionalSum(d, k) ==
    IF k = 0 THEN 0
    ELSE DigitVal(d[k]) * Pow10(Len(d) - k) + PositionalSum(d, k - 1)

\* the integer a numeral denotes
Base10(d) ==
    IF AllDigits(d) THEN PositionalSum(d, Len(d))
    ELSE IF d[1] = "-" THEN 0 - PositionalSum(Tail(d), Len(d) - 1)
    ELSE PositionalSum(Tail(d), Len(d) - 1)

\* C6: for every matched feed row, in order: ">10" gives 100, else "1" gives
\* 0, else the descriptor read as a base-10 integer is the count; the call
\* fails (ValueError) exactly when a matched row's descriptor is none of these.
C6_QuantityNormalization ==
    pc # "recon" =>
        /\ (pc = "recon_stocks_raised") <=>
              (\E i \in MatchedRows :
                  LET d == watch_remnants[i].quantity
                  IN  d # Gt10 /\ d # One /\ ~IsNumeral(d))
        /\ StocksReturned =>
              \A i \in MatchedRows :
                  LET d == watch_remnants[i].quantity
                      want == IF d = Gt10 THEN 100
                              ELSE IF d = One THEN 0 ELSE Base10(d)
                  IN  \E m \in 1..Len(stocks) :
                         /\ StockId(stocks[m]) = watch_remnants[i].code
                         /\ StockCount(stocks[m]) = want

\* C6 witness: one returned list holds a ">10" row as 100, a "1" row as 0
\* and a "7" row as 7.
C6_Witness ==
    /\ StocksReturned
    /\ \E i, j \in MatchedRows :
          /\ watch_remnants[i].quantity = Gt10
          /\ watch_remnants[j].quantity = << "7" >>
          /\ \E m, k \in 1..Len(stocks) :
                /\ StockId(stocks[m]) = watch_remnants[i].code
                /\ StockCount(stocks[m]) = 100
                /\ StockId(stocks[k]) = watch_remnants[j].code
                /\ StockCount(stocks[k]) = 7

\* C6 witness of the failure: a matched non-numeric descriptor raised.
C6_WitnessRaised ==
    /\ pc = "recon_stocks_raised"
    /\ watch_remnants[1].quantity = << "1", "x" >>

\* C8 (as claimed): after create_stocks returns, the collection passed in is
\* empty.
C8_OfferIdsEmptied == StocksReturned => offer_ids = << >>

\* C8 (amended): after create_stocks returns, the collection passed in holds
\* exactly the identifiers no feed row matched, in their original order.
C8_OfferIdsKeepUnmatched ==
    StocksReturned =>
        LET Unmatched(id) == ~HasRow(id)
        IN  offer_ids = SelectSeq(OriginalIds, Unmatched)

\* C8 witness: the call returned, removed a matched identifier and left an
\* unmatched one in the collection.
C8_Witness ==
    /\ StocksReturned
    /\ offer_ids # << >>
    /\ Len(offer_ids) < Len(OriginalIds)

----------------------------------------------------------------------------
(* SpecDivide: list(divide(lst, n)) for every list over two items up to    *)
(* MaxLst and every chunk size 1..MaxN.                                    *)

InitDivide ==
    /\ lst \in SeqsUpTo({1, 2}, MaxLst)
    /\ n \in 1..MaxN
    /\ chunks = << >>
    /\ pc = "divide"
    /\ entry = "seller" /\ account = "OZON" /\ catalogue = << >> /\ feed = << >>
    /\ watch_remnants = << >> /\ offer_ids = << >>
    /\ stocks = << >> /\ prices = << >> /\ error = "none"
    /\ product_list = << >> /\ page = "" /\ todo = << >> /\ calls = << >>
    /\ printed = << >> /\ escaped = FALSE /\ unawaited = << >>

\* chunks = list(divide(lst, n))
CallDivide ==
    /\ pc = "divide"
    /\ chunks' = divide(lst, n)
    /\ pc' = "divided"
    /\ UNCHANGED << entry, account, catalogue, feed, watch_remnants, offer_ids, product_list,
                    page, stocks, prices, todo, calls, error, printed, escaped,
                    unawaited, lst, n >>

NextDivide == CallDivide

SpecDivide == InitDivide /\ [][NextDivide]_vars

RECURSIVE Flatten(_)
\* the concatenation of a list of lists
Flatten(ls) == IF ls = << >> THEN << >> ELSE Head(ls) \o Flatten(Tail(ls))

\* C7: for every list and positive n the chunks of divide(lst, n) are
\* contiguous, non-overlapping and in order, every chunk but the last has
\* length n, the last has length in 1..n, an empty list yields no chunk and
\* the concatenation of the chunks is the list.
C7_DividePartitions ==
    pc = "divided" =>
        /\ Flatten(chunks) = lst
        /\ \A k \in 1..Len(chunks) :
              /\ k < Len(chunks) => Len(chunks[k]) = n
              /\ Len(chunks[k]) \in 1..n
              /\ \A i \in 1..Len(chunks[k]) : chunks[k][i] = lst[(k - 1) * n + i]
        /\ lst = << >> => chunks = << >>

\* C7 witness: a list cut into at least two full chunks and a shorter last one.
C7_Witness ==
    /\ pc = "divided"
    /\ Len(chunks) >= 3
    /\ Len(chunks[Len(chunks)]) < n

----------------------------------------------------------------------------
(* Catalogue pagination: get_offer_ids of both programs.                   *)

\* the value dict.get gives for an absent key
None == "<None>"

\* one product of an Ozon page / one entry of a Yandex page
OzonProduct(id) == [offer_id |-> id]
YandexEntry(id) == [offer |-> [shopSku |-> id]]

\* some_prod.get("paging").get("nextPageToken")
NextPageToken(resp) ==
    IF "nextPageToken" \in DOMAIN resp.paging THEN resp.paging.nextPageToken ELSE None

\* Python truth value of a page token: None and "" are false
Truthy(token) == token # None /\ token # ""

\* seller.get_offer_ids breaking as soon as the total is reached or passed
OzonAfterPageAtLeast(products, resp) ==
    LET all == products \o resp.items
    IN  [product_list |-> all, page |-> resp.last_id, done |-> resp.total <= Len(all)]

\* seller.get_offer_ids, one turn of the loop (lines 61-66) on the page resp
OzonAfterPage(products, resp) ==
    LET all == products \o resp.items
    IN  [product_list |-> all, page |-> resp.last_id, done |-> resp.total = Len(all)]

\* market.get_offer_ids, one turn of the loop (lines 125-129) on the page resp
YandexAfterPage(products, resp) ==
    [product_list |-> products \o resp.offerMappingEntries,
     page |-> NextPageToken(resp),
     done |-> ~Truthy(NextPageToken(resp))]

\* one turn of the loop of get_offer_ids of the program e
AfterPage(e, products, resp) ==
    IF e = "seller" THEN OzonAfterPage(products, resp)
    ELSE YandexAfterPage(products, resp)

\* the list get_offer_ids builds from product_list when the loop is left
\* (seller.py 67-70, market.py 130-133)
OfferIdsOf(e, products) ==
    [k \in 1..Len(products) |->
        IF e = "seller" THEN products[k].offer_id ELSE products[k].offer.shopSku]

\* the record of one catalogue request and the page it was answered with
PageCall(a, arg, resp) ==
    [op |-> "get_product_list", account |-> a, arg |-> arg, ok |-> TRUE, resp |-> resp]

\* pages of at most two products over the identifiers 1 and 2
PageIdLists == SeqsUpTo({1, 2}, 2)

\* any page the Ozon marketplace may answer with
OzonPages ==
    {[items |-> [k \in 1..Len(l) |-> OzonProduct(l[k])], total |-> t, last_id |-> "last"] :
        l \in PageIdLists, t \in 0..MaxTotal}

\* any page the Yandex marketplace may answer with: a token, an empty token
\* or no token
YandexPages ==
    {[offerMappingEntries |-> [k \in 1..Len(l) |-> YandexEntry(l[k])], paging |-> pg] :
        l \in PageIdLists,
        pg \in {[nextPageToken |-> "next"], [nextPageToken |-> ""], [prevPageToken |-> "prev"]}}

----------------------------------------------------------------------------
(* SpecPaging: one call of get_offer_ids against a marketplace that may    *)
(* answer each request with any page.                                      *)

InitPaging ==
    /\ entry \in {"seller", "market"}
    /\ account = (IF entry = "seller" THEN "OZON" ELSE "FBS")
    /\ pc = "get_offer_ids"
    /\ product_list = << >> /\ page = "" /\ offer_ids = << >> /\ calls = << >>
    /\ catalogue = << >> /\ feed = << >> /\ watch_remnants = << >>
    /\ stocks = << >> /\ prices = << >> /\ error = "none" /\ todo = << >>
    /\ printed = << >> /\ escaped = FALSE /\ unawaited = << >>
    /\ lst = << >> /\ n = 1 /\ chunks = << >>

\* one turn of the while loop: the request, the extend, the test, and the
\* building of offer_ids when the loop is left
PagingTurn ==
    /\ pc = "get_offer_ids"
    /\ Len(calls) < MaxPages
    /\ \E resp \in (IF entry = "seller" THEN OzonPages ELSE YandexPages) :
          LET r == AfterPage(entry, product_list, resp)
          IN  /\ calls' = Append(calls, PageCall(account, page, resp))
              /\ product_list' = r.product_list
              /\ page' = r.page
              /\ offer_ids' = (IF r.done THEN OfferIdsOf(entry, r.product_list)
                               ELSE offer_ids)
              /\ pc' = (IF r.done THEN "got_offer_ids" ELSE "get_offer_ids")
    /\ UNCHANGED << entry, account, catalogue, feed, watch_remnants, stocks, prices, todo,
                    error, printed, escaped, unawaited, lst, n, chunks >>

NextPaging == PagingTurn

SpecPaging == InitPaging /\ [][NextPaging]_vars

\* the identifiers of the page a request was answered with
PageIds(c) ==
    IF "items" \in DOMAIN c.resp
    THEN [k \in 1..Len(c.resp.items) |-> c.resp.items[k].offer_id]
    ELSE [k \in 1..Len(c.resp.offerMappingEntries) |->
              c.resp.offerMappingEntries[k].offer.shopSku]

\* the identifiers of all pages served so far, in page order
ServedIds == Flatten([k \in 1..Len(calls) |-> PageIds(calls[k])])

\* the last page served tells that no further page follows
NoFurtherPage ==
    LET last == calls[Len(calls)].resp
    IN  IF entry = "seller" THEN last.total = Len(ServedIds)
        ELSE \/ "nextPageToken" \notin DOMAIN last.paging
             \/ last.paging.nextPageToken = ""

\* C9: get_offer_ids has left its loop exactly when the last page served
\* signalled that no page follows (Yandex: empty or absent token; Ozon:
\* accumulated count equals the reported total), and the list it returns is
\* the concatenation, in page order, of the identifiers of all pages served,
\* nothing added, dropped or deduplicated.
C9_PaginationConcatenates ==
    /\ calls = << >> => pc = "get_offer_ids"
    /\ calls # << >> => (pc = "got_offer_ids" <=> NoFurtherPage)
    /\ pc = "got_offer_ids" => offer_ids = ServedIds

\* C9 witness: the Yandex loop ended on the third page and returned an
\* identifier that two pages listed, twice.
C9_Witness ==
    /\ entry = "market"
    /\ pc = "got_offer_ids"
    /\ Len(calls) = 3
    /\ Count(1, offer_ids) >= 2
    /\ PageIds(calls[1]) = << 1 >>

\* the Ozon loop ended on a later page, keeping a repeated identifier
C9_WitnessOzon ==
    /\ entry = "seller"
    /\ pc = "got_offer_ids"
    /\ Len(calls) >= 2
    /\ Count(1, offer_ids) >= 2

----------------------------------------------------------------------------
(* The two programs: seller.main and market.main.                          *)
(* Every network request is one step: it is answered, or it raises one of  *)
(* NetworkErrors. The code between two requests runs in the steps below.   *)

\* limit of one catalogue page request
OzonPageLimit == 1000
YandexPageLimit == 200

\* chunk sizes of the upload loops of main (and of market.upload_prices)
OzonStockBatch == 100
OzonPriceBatch == 900
YandexStockBatch == 2000
YandexPriceBatch == 500

\* the stock loops using each other's chunk size
StockBatchSwapped(e) == IF e = "seller" THEN YandexStockBatch ELSE OzonStockBatch

StockBatch(e) == IF e = "seller" THEN OzonStockBatch ELSE YandexStockBatch

\* what a request may raise: requests.exceptions.ReadTimeout,
\* requests.exceptions.ConnectionError, and the HTTPError of raise_for_status
NetworkErrors == {"ReadTimeout", "ConnectionError", "HTTPError"}

\* the accounts a program works on, in order
Accounts(e) == IF e = "seller" THEN << "OZON" >> ELSE << "FBS", "DBS" >>

\* the identifiers 1..k in order
Range(k) == [i \in 1..k |-> i]

\* the rows of the feeds the programs are run on: a ">10" row for each feed
\* code, and a row of code 1 whose quantity is no number
MainRows ==
    {[code |-> c, quantity |-> Gt10, price |-> PriceA] : c \in FeedCodes}
        \cup {[code |-> 1, quantity |-> << "x" >>, price |-> PriceA]}

MainFeeds == SeqsUpTo(MainRows, MaxMainFeed)

\* what the Ozon account may list: nothing, two offers, three stock chunks,
\* two catalogue pages; and a listing that repeats an offer
OzonCatalogues ==
    {Range(k) : k \in {0, 2, 2 * OzonStockBatch + 1, OzonPageLimit + 1}}
        \cup {<< 1, 1 >>}

\* what a Yandex account may list: nothing, two offers, two stock chunks
YandexCatalogues == {Range(k) : k \in {0, 2, YandexStockBatch + 1}}

\* the number of offers a page token stands for ("" is the first request)
Offset(token, max) ==
    IF token = "" THEN 0 ELSE CHOOSE k \in 0..max : ToString(k) = token

\* the Ozon marketplace answering a page request for the listing cat
OzonServe(cat, last_id) ==
    LET off == Offset(last_id, Len(cat))
        ids == SubSeq(cat, off + 1, Min(off + OzonPageLimit, Len(cat)))
    IN  [items |-> [k \in 1..Len(ids) |-> OzonProduct(ids[k])],
         total |-> Len(cat),
         last_id |-> ToString(off + Len(ids))]

\* the Yandex marketplace answering a page request for the listing cat:
\* the last page carries no nextPageToken
YandexServe(cat, token) ==
    LET off == Offset(token, Len(cat))
        ids == SubSeq(cat, off + 1, Min(off + YandexPageLimit, Len(cat)))
    IN  [offerMappingEntries |-> [k \in 1..Len(ids) |-> YandexEntry(ids[k])],
         paging |-> IF off + YandexPageLimit < Len(cat)
                    THEN [nextPageToken |-> ToString(off + YandexPageLimit)]
                    ELSE [prevPageToken |-> token]]

Serve(e, cat, token) ==
    IF e = "seller" THEN OzonServe(cat, token) ELSE YandexServe(cat, token)

\* the record of a request other than an answered page request
Call(op, a, arg, ok) == [op |-> op, account |-> a, arg |-> arg, ok |-> ok]

\* the statement at pc is inside the try block of main: all of seller.main
\* (lines 292-302), market.main from get_offer_ids on (lines 306-323)
InTry == entry = "seller" \/ pc # "download_stock"

\* what the handler prints for the exception e
Message(e) ==
    IF e = "ReadTimeout" THEN "timeout"
    ELSE IF e = "ConnectionError" THEN "connection error"
    ELSE "ERROR_2"

\* a handler per chunk: the exception is reported and the loop goes on
RaiseAndGoOn(e) ==
    /\ error' = e
    /\ pc' = pc
    /\ printed' = Append(printed, Message(e))
    /\ escaped' = escaped

\* a handler per account: an exception of the FBS part of market.main is
\* reported and main goes on with what follows the FBS stock loop
RaiseSkipStocks(e) ==
    /\ error' = e
    /\ pc' = (IF entry = "market" /\ account = "FBS" /\ InTry
              THEN "upload_prices" ELSE "done")
    /\ IF InTry
       THEN printed' = Append(printed, Message(e)) /\ escaped' = escaped
       ELSE printed' = printed /\ escaped' = TRUE

\* the exception e is raised at pc: inside the try block the handler prints
\* and main returns; outside it the exception leaves main
Raise(e) ==
    /\ error' = e
    /\ pc' = "done"
    /\ IF InTry
       THEN printed' = Append(printed, Message(e)) /\ escaped' = escaped
       ELSE printed' = printed /\ escaped' = TRUE

\* the environment: never changed by a program
Env == << entry, catalogue, feed, lst, n, chunks >>

Init ==
    /\ entry \in {"seller", "market"}
    /\ account = Accounts(entry)[1]
    /\ catalogue \in [{Accounts(entry)[k] : k \in 1..Len(Accounts(entry))} ->
                         IF entry = "seller" THEN OzonCatalogues ELSE YandexCatalogues]
    /\ feed \in MainFeeds
    /\ pc = (IF entry = "seller" THEN "get_offer_ids" ELSE "download_stock")
    /\ watch_remnants = << >> /\ offer_ids = << >>
    /\ product_list = << >> /\ page = ""
    /\ stocks = << >> /\ prices = << >> /\ todo = << >> /\ calls = << >>
    /\ error = "none" /\ printed = << >> /\ escaped = FALSE /\ unawaited = << >>
    /\ lst = << >> /\ n = 1 /\ chunks = << >>

\* where main goes on after get_offer_ids returned
AfterOfferIds == IF entry = "seller" THEN "download_stock" ELSE "create_stocks"

\* get_offer_ids: one turn of its loop, the request answered or raising
GetProductList ==
    /\ pc = "get_offer_ids"
    /\ \/ LET resp == Serve(entry, catalogue[account], page)
              r == AfterPage(entry, product_list, resp)
          IN  /\ calls' = Append(calls, PageCall(account, page, resp))
              /\ product_list' = r.product_list
              /\ page' = r.page
              /\ offer_ids' = (IF r.done THEN OfferIdsOf(entry, r.product_list)
                               ELSE offer_ids)
              /\ pc' = (IF r.done THEN AfterOfferIds ELSE pc)
              /\ UNCHANGED << error, printed, escaped >>
       \/ \E e \in NetworkErrors :
              /\ calls' = Append(calls, Call("get_product_list", account, page, FALSE))
              /\ Raise(e)
              /\ UNCHANGED << product_list, page, offer_ids >>
    /\ UNCHANGED << Env, account, watch_remnants, stocks, prices, todo, unawaited >>

\* where main goes on after download_stock returned
AfterDownload == IF entry = "seller" THEN "create_stocks" ELSE "get_offer_ids"

\* watch_remnants = download_stock(): the request answered or raising
DownloadStock ==
    /\ pc = "download_stock"
    /\ \/ /\ calls' = Append(calls, Call("download_stock", account, << >>, TRUE))
          /\ watch_remnants' = feed
          /\ pc' = AfterDownload
          /\ UNCHANGED << error, printed, escaped >>
       \/ \E e \in NetworkErrors :
              /\ calls' = Append(calls, Call("download_stock", account, << >>, FALSE))
              /\ Raise(e)
              /\ UNCHANGED watch_remnants
    /\ UNCHANGED << Env, account, offer_ids, product_list, page, stocks, prices, todo,
                    unawaited >>

\* where main goes on after the loop over the stock chunks
AfterStocks == IF entry = "seller" THEN "create_prices" ELSE "upload_prices"

\* stocks = create_stocks(watch_remnants, offer_ids[, warehouse]) and
\* list(divide(stocks, batch)); int() may raise ValueError
CreateStocks ==
    /\ pc = "create_stocks"
    /\ LET r == create_stocks(entry, watch_remnants, offer_ids, account)
       IN  /\ offer_ids' = r.offer_ids
           /\ IF r.raised
              THEN /\ Raise("ValueError")
                   /\ UNCHANGED << stocks, todo >>
              ELSE /\ stocks' = r.stocks
                   /\ todo' = divide(r.stocks, StockBatch(entry))
                   /\ pc' = (IF todo' = << >> THEN AfterStocks ELSE "update_stocks")
                   /\ UNCHANGED << error, printed, escaped >>
    /\ UNCHANGED << Env, account, watch_remnants, product_list, page, prices, calls,
                    unawaited >>

\* update_stocks(some_stock, ...): one turn of the loop over the chunks
UpdateStocks ==
    /\ pc = "update_stocks"
    /\ \/ /\ calls' = Append(calls, Call("update_stocks", account, Head(todo), TRUE))
          /\ todo' = Tail(todo)
          /\ pc' = (IF Tail(todo) = << >> THEN AfterStocks ELSE pc)
          /\ UNCHANGED << error, printed, escaped >>
       \/ \E e \in NetworkErrors :
              /\ calls' = Append(calls, Call("update_stocks", account, Head(todo), FALSE))
              /\ Raise(e)
              /\ UNCHANGED todo
    /\ UNCHANGED << Env, account, watch_remnants, offer_ids, product_list, page, stocks,
                    prices, unawaited >>

\* seller.main: prices = create_prices(watch_remnants, offer_ids) on the
\* list create_stocks has worked on, and list(divide(prices, 900))
CreatePrices ==
    /\ pc = "create_prices"
    /\ LET r == seller_create_prices(watch_remnants, offer_ids)
       IN  /\ prices' = r.prices
           /\ todo' = divide(r.prices, OzonPriceBatch)
           /\ pc' = (IF todo' = << >> THEN "done" ELSE "update_price")
    /\ UNCHANGED << Env, account, watch_remnants, offer_ids, product_list, page, stocks,
                    calls, error, printed, escaped, unawaited >>

\* seller.main: update_price(some_price, ...), one turn of the loop
UpdatePrice ==
    /\ pc = "update_price"
    /\ \/ /\ calls' = Append(calls, Call("update_price", account, Head(todo), TRUE))
          /\ todo' = Tail(todo)
          /\ pc' = (IF Tail(todo) = << >> THEN "done" ELSE pc)
          /\ UNCHANGED << error, printed, escaped >>
       \/ \E e \in NetworkErrors :
              /\ calls' = Append(calls, Call("update_price", account, Head(todo), FALSE))
              /\ Raise(e)
              /\ UNCHANGED todo
    /\ UNCHANGED << Env, account, watch_remnants, offer_ids, product_list, page, stocks,
                    prices, unawaited >>

\* market.main: upload_prices(watch_remnants, campaign, token) is an async
\* function called without await: the call builds a coroutine object, its
\* body never runs; main goes on with the DBS account, or returns
UploadPrices ==
    /\ pc = "upload_prices"
    /\ unawaited' = Append(unawaited, [fn |-> "upload_prices", campaign |-> account])
    /\ IF account = "FBS"
       THEN /\ account' = "DBS"
            /\ pc' = "get_offer_ids"
            /\ product_list' = << >>
            /\ page' = ""
       ELSE /\ pc' = "done"
            /\ UNCHANGED << account, product_list, page >>
    /\ UNCHANGED << Env, watch_remnants, offer_ids, stocks, prices, todo, calls, error,
                    printed, escaped >>

Next ==
    \/ GetProductList
    \/ DownloadStock
    \/ CreateStocks
    \/ UpdateStocks
    \/ CreatePrices
    \/ UpdatePrice
    \/ UploadPrices

Spec == Init /\ [][Next]_vars

----------------------------------------------------------------------------
(* Properties of the two programs (checked under Spec).                    *)

\* the run is over and no call of it failed
RanClean == pc = "done" /\ error = "none"

\* the write calls of one kind issued for the account a, in order
Writes(op, a) ==
    LET Is(c) == c.op = op /\ c.account = a
    IN  SelectSeq(calls, Is)

\* the offers of the account a the feed has a row for
Matched(a) ==
    {catalogue[a][k] : k \in {i \in 1..Len(catalogue[a]) : In(catalogue[a][i], Codes(feed))}}

\* C2 (as claimed): in a run of seller.main with no failing call, every
\* identifier of the fetched catalogue that has a feed row is contained in a
\* price-update payload sent to the marketplace (the marketplace listing each
\* offer once).
C2_PricesSeeOriginalIds ==
    (entry = "seller" /\ RanClean /\ NoDuplicates(catalogue["OZON"])) =>
        \A id \in Matched("OZON") :
            \E k \in 1..Len(calls) :
                /\ calls[k].op = "update_price"
                /\ calls[k].ok
                /\ In(id, PriceIds(calls[k].arg))

\* the stock list and the price list of the account a, computed from the
\* listing and the feed
StocksFor(a) == create_stocks(entry, feed, catalogue[a], a)
PricesFor(a) == create_prices(entry, feed, catalogue[a])

\* C3 (as claimed): in a run of market.main with no failing call, for each
\* account all stock chunks are sent and the price-update endpoint is
\* called once per chunk of the account's price list.
C3_UploadsRunToCompletion ==
    (entry = "market" /\ RanClean) =>
        \A a \in {"FBS", "DBS"} :
            /\ Len(Writes("update_stocks", a)) =
                  Len(divide(StocksFor(a).stocks, YandexStockBatch))
            /\ Len(Writes("update_price", a)) =
                  Len(divide(PricesFor(a).prices, YandexPriceBatch))

\* C4 (as claimed): an error raised by any network call of a run reaches the
\* handler of main, is printed and swallowed: no exception leaves main.
C4_NetworkErrorsSwallowed ==
    (pc = "done" /\ error \in NetworkErrors) =>
        /\ ~escaped
        /\ printed = << Message(error) >>

\* C10: each chunk of a stock or price list is sent in at most one write
\* call and in list order (the k-th write call of a list carries its k-th
\* chunk), and a failed call is the last request of the run: no later chunk
\* and no later step is sent, none is sent again.
C10_ChunksOnceInOrderNoRetry ==
    /\ \A k \in 1..Len(calls) : ~calls[k].ok => k = Len(calls)
    /\ \A i \in 1..Len(Accounts(entry)) :
          LET a == Accounts(entry)[i]
              sent == Writes("update_stocks", a)
          IN  sent # << >> =>
                LET all == divide(StocksFor(a).stocks, StockBatch(entry))
                IN  /\ Len(sent) <= Len(all)
                    /\ \A k \in 1..Len(sent) : sent[k].arg = all[k]
    /\ LET sent == Writes("update_price", account)
       IN  sent # << >> =>
             LET all == divide(prices, OzonPriceBatch)
             IN  /\ Len(sent) <= Len(all)
                 /\ \A k \in 1..Len(sent) : sent[k].arg = all[k]
    /\ (error # "none") => pc = "done"

\* C10 witness: the second of three stock chunks failed after the first was
\* sent; the run ended with the third chunk and the prices unsent.
C10_Witness ==
    /\ pc = "done"
    /\ error = "HTTPError"
    /\ Len(calls) >= 2
    /\ calls[Len(calls)].op = "update_stocks"
    /\ calls[Len(calls) - 1].op = "update_stocks"
    /\ calls[Len(calls) - 1].ok
    /\ Len(todo) = 2

----------------------------------------------------------------------------
(* Batch sizes of the write calls (checked under Spec).                    *)

\* all write calls of the run, in order
WriteCalls ==
    LET IsWrite(c) == c.op \in {"update_stocks", "update_price"}
    IN  SelectSeq(calls, IsWrite)

\* the most items one request to the endpoint may carry
EndpointMax(op, a) ==
    IF a = "OZON" THEN (IF op = "update_stocks" THEN 100 ELSE 1000)
    ELSE (IF op = "update_stocks" THEN 2000 ELSE 500)

\* the entries the write calls of one list carried, in the order sent
SentEntries(op, a) ==
    LET w == Writes(op, a)
    IN  Flatten([k \in 1..Len(w) |-> w[k].arg])

\* l is the beginning of m
IsPrefix(l, m) == Len(l) <= Len(m) /\ l = SubSeq(m, 1, Len(l))

\* the loop over the stock chunks of the account a has run to its end
StockLoopEnded(a) ==
    IF entry = "seller"
    THEN \/ pc \in {"create_prices", "update_price"}
         \/ pc = "done" /\ (error = "none" \/ calls[Len(calls)].op = "update_price")
    ELSE Len(unawaited) >= (IF a = "FBS" THEN 1 ELSE 2)

\* C11: every write call carries one non-empty chunk of at most the
\* endpoint's maximum (Ozon stock 100, price 1000; Yandex stock 2000, price
\* 500), and the chunks sent for one list carry its entries in order, none
\* twice: all of them, each exactly once, when the loop over the list has
\* run to its end.
C11_WritesCarryBoundedChunks ==
    /\ \A k \in 1..Len(WriteCalls) :
          /\ Len(WriteCalls[k].arg) >= 1
          /\ Len(WriteCalls[k].arg) <= EndpointMax(WriteCalls[k].op, WriteCalls[k].account)
    /\ \A i \in 1..Len(Accounts(entry)) :
          LET a == Accounts(entry)[i]
          IN  /\ Writes("update_stocks", a) # << >> =>
                    IsPrefix(SentEntries("update_stocks", a), StocksFor(a).stocks)
              /\ (StockLoopEnded(a) /\ ~StocksFor(a).raised) =>
                    SentEntries("update_stocks", a) = StocksFor(a).stocks
    /\ IsPrefix(SentEntries("update_price", account), prices)
    /\ (entry = "seller" /\ RanClean) => SentEntries("update_price", "OZON") = prices

\* C11 witness: a run of seller.main that ended without a failure after
\* sending 201 stock entries in chunks of 100, 100 and 1.
C11_Witness ==
    /\ entry = "seller"
    /\ RanClean
    /\ Len(Writes("update_stocks", "OZON")) = 3
    /\ Len(Writes("update_stocks", "OZON")[1].arg) = 100
    /\ Len(Writes("update_stocks", "OZON")[3].arg) = 1

\* a run of market.main that sent the 2001 stock entries of both accounts in
\* chunks of 2000 and 1
C11_WitnessYandex ==
    /\ entry = "market"
    /\ RanClean
    /\ Len(Writes("update_stocks", "DBS")) = 2
    /\ Len(Writes("update_stocks", "FBS")) = 2
    /\ Len(Writes("update_stocks", "FBS")[1].arg) = 2000

\* a run of seller.main that sent a price chunk
C11_WitnessPrice ==
    /\ entry = "seller"
    /\ RanClean
    /\ Len(Writes("update_price", "OZON")) = 1

----------------------------------------------------------------------------
(* One handler for both accounts of market.main (checked under Spec).      *)

\* an exception was raised in the FBS part of market.main: inside the try
\* block, before the account changed
FbsRaised == entry = "market" /\ error # "none" /\ ~escaped /\ account = "FBS"

\* no request was issued for the DBS account, and no price upload was
\* called for it
NoDbsRequest ==
    /\ \A k \in 1..Len(calls) : calls[k].account # "DBS"
    /\ \A k \in 1..Len(unawaited) : unawaited[k].campaign # "DBS"

\* C12: in market.main, once a call of the FBS part has raised (a page
\* request of the catalogue, int() in create_stocks, or a stock write), main
\* has returned and from then on no request of the DBS part (page request,
\* stock write, price upload) is ever issued in the run.
C12_FbsFailureStopsDbs == [](FbsRaised => [](pc = "done" /\ NoDbsRequest))

\* a stock write of the FBS account failed and the DBS account, which has
\* offers listed, was never asked for anything
C12_Witness ==
    /\ FbsRaised /\ pc = "done"
    /\ calls # << >>
    /\ calls[Len(calls)].op = "update_stocks" /\ ~calls[Len(calls)].ok
    /\ catalogue["DBS"] # << >>
    /\ NoDbsRequest

\* the same after int() raised in create_stocks of the FBS account
C12_WitnessValueError ==
    /\ FbsRaised /\ pc = "done" /\ error = "ValueError"
    /\ catalogue["DBS"] # << >>
    /\ NoDbsRequest

\* the same after a page request of the FBS catalogue failed
C12_WitnessCatalogue ==
    /\ FbsRaised /\ pc = "done"
    /\ calls # << >>
    /\ calls[Len(calls)].op = "get_product_list" /\ ~calls[Len(calls)].ok
    /\ catalogue["DBS"] # << >>
    /\ NoDbsRequest

====
